---------------------------- MODULE Spec2Model ----------------------------
(***************************************************************************)
(* A model of cmakelint (src/src/cmakelint/__main__.py): the process-wide  *)
(* lint state and its filters, the comment stripper, the per-line checks,  *)
(* the Find-module package tracker and the per-file driver.                *)
(*                                                                         *)
(* A Python str is a sequence of one-character strings, so that prefix     *)
(* tests, splitting, stripping, case conversion and the regular            *)
(* expressions are computed character by character as the code does.       *)
(***************************************************************************)
EXTENDS Integers, Sequences, FiniteSets, TLC

VARIABLES
    pc,                     \* "start" | "idle" | "lines" | "exit" | "clean" | "report"
    filters,                \* _lint_state.filters
    errors,                 \* _lint_state.errors
    spaces,                 \* _lint_state.spaces
    linelength,             \* _lint_state.linelength
    quiet,                  \* _lint_state.quiet
    config,                 \* _lint_state.config
    args,                   \* the argparse namespace parse_args was given
    rcfile,                 \* the configuration file parse_args read, or NoRc
    have_included_stdargs,  \* _package_state.have_included_stdargs
    have_used_stdargs,      \* _package_state.have_used_stdargs
    filename,               \* process_file's argument
    raw_lines,              \* CleansedLines.raw_lines
    lines,                  \* CleansedLines.lines
    have_seen_uppercase,    \* CleansedLines.have_seen_uppercase
    linenumber,             \* the loop variable of _process_file's second loop
    original_filters,       \* process_file's local copy of the filters
    quote,                  \* the loop-carried quote flag of CleansedLines.__init__
    printed,                \* findings printed for the current file, in order
    reported,               \* every errors(...) call of the current file, in order
    outcome,                \* how the last process_file call ended
    nfiles                  \* number of process_file calls so far

vars == <<pc, filters, errors, spaces, linelength, quiet, config, args, rcfile,
          have_included_stdargs, have_used_stdargs, filename, raw_lines, lines,
          have_seen_uppercase, linenumber, original_filters, quote, printed,
          reported, outcome, nfiles>>

\* Python's None, for values that are otherwise sequences of characters.
None == <<"None">>

---------------------------------------------------------------------------
(* str methods *)

IsSpace(c) == c \in {" ", "\t", "\r", "\n"}

LowerLetters == <<"a", "b", "c", "d", "e", "f", "g", "h", "i", "j", "k", "l", "m",
                  "n", "o", "p", "q", "r", "s", "t", "u", "v", "w", "x", "y", "z">>

UpperLetters == <<"A", "B", "C", "D", "E", "F", "G", "H", "I", "J", "K", "L", "M",
                  "N", "O", "P", "Q", "R", "S", "T", "U", "V", "W", "X", "Y", "Z">>

Digits == {"0", "1", "2", "3", "4", "5", "6", "7", "8", "9"}

IsLower(c) == \E i \in 1..26 : LowerLetters[i] = c

IsUpper(c) == \E i \in 1..26 : UpperLetters[i] = c

\* \w of the re module, on ASCII
IsWord(c) == IsLower(c) \/ IsUpper(c) \/ c \in Digits \/ c = "_"

upper_char(c) == IF IsLower(c) THEN UpperLetters[CHOOSE i \in 1..26 : LowerLetters[i] = c] ELSE c

lower_char(c) == IF IsUpper(c) THEN LowerLetters[CHOOSE i \in 1..26 : UpperLetters[i] = c] ELSE c

upper(s) == [i \in 1..Len(s) |-> upper_char(s[i])]

lower(s) == [i \in 1..Len(s) |-> lower_char(s[i])]

\* str.isupper: at least one cased character and no lower-case one
isupper(s) == (\E i \in 1..Len(s) : IsUpper(s[i])) /\ ~(\E i \in 1..Len(s) : IsLower(s[i]))

startswith(s, p) == Len(p) <= Len(s) /\ SubSeq(s, 1, Len(p)) = p

endswith(s, p) == Len(p) <= Len(s) /\ SubSeq(s, Len(s) - Len(p) + 1, Len(s)) = p

\* s[n:]
from(s, n) == SubSeq(s, n + 1, Len(s))

contains(s, c) == \E i \in 1..Len(s) : s[i] = c

\* the number of trailing whitespace characters of s
TrailingSpaces(s) == IF \A i \in 1..Len(s) : IsSpace(s[i]) THEN Len(s)
                     ELSE Len(s) - (CHOOSE i \in 1..Len(s) : ~IsSpace(s[i]) /\ \A j \in (i+1)..Len(s) : IsSpace(s[j]))

\* the number of leading whitespace characters of s
LeadingSpaces(s) == IF \A i \in 1..Len(s) : IsSpace(s[i]) THEN Len(s)
                    ELSE (CHOOSE i \in 1..Len(s) : ~IsSpace(s[i]) /\ \A j \in 1..(i-1) : IsSpace(s[j])) - 1

rstrip(s) == SubSeq(s, 1, Len(s) - TrailingSpaces(s))

strip(s) == LET r == rstrip(s) IN SubSeq(r, LeadingSpaces(r) + 1, Len(r))

\* s.split(sep) for a one-character separator: the pieces between separators
RECURSIVE split(_, _)
split(s, sep) == IF ~contains(s, sep) THEN <<s>>
                 ELSE LET i == CHOOSE k \in 1..Len(s) : s[k] = sep /\ \A j \in 1..(k-1) : s[j] # sep
                      IN <<SubSeq(s, 1, i - 1)>> \o split(from(s, i), sep)

\* os.path.basename on a POSIX path
basename(path) == IF ~contains(path, "/") THEN path
                  ELSE LET i == CHOOSE k \in 1..Len(path) : path[k] = "/" /\ \A j \in (k+1)..Len(path) : path[j] # "/"
                       IN from(path, i)

---------------------------------------------------------------------------
(* the closed category set *)

convention_filename == <<"c", "o", "n", "v", "e", "n", "t", "i", "o", "n", "/", "f", "i", "l", "e", "n", "a", "m", "e">>

cat_linelength == <<"l", "i", "n", "e", "l", "e", "n", "g", "t", "h">>

package_consistency == <<"p", "a", "c", "k", "a", "g", "e", "/", "c", "o", "n", "s", "i", "s", "t", "e", "n", "c", "y">>

package_stdargs == <<"p", "a", "c", "k", "a", "g", "e", "/", "s", "t", "d", "a", "r", "g", "s">>

readability_logic == <<"r", "e", "a", "d", "a", "b", "i", "l", "i", "t", "y", "/", "l", "o", "g", "i", "c">>

readability_mixedcase == <<"r", "e", "a", "d", "a", "b", "i", "l", "i", "t", "y", "/", "m", "i", "x", "e", "d", "c", "a", "s", "e">>

readability_wonkycase == <<"r", "e", "a", "d", "a", "b", "i", "l", "i", "t", "y", "/", "w", "o", "n", "k", "y", "c", "a", "s", "e">>

syntax == <<"s", "y", "n", "t", "a", "x">>

whitespace_eol == <<"w", "h", "i", "t", "e", "s", "p", "a", "c", "e", "/", "e", "o", "l">>

whitespace_extra == <<"w", "h", "i", "t", "e", "s", "p", "a", "c", "e", "/", "e", "x", "t", "r", "a">>

whitespace_indent == <<"w", "h", "i", "t", "e", "s", "p", "a", "c", "e", "/", "i", "n", "d", "e", "n", "t">>

whitespace_mismatch == <<"w", "h", "i", "t", "e", "s", "p", "a", "c", "e", "/", "m", "i", "s", "m", "a", "t", "c", "h">>

whitespace_newline == <<"w", "h", "i", "t", "e", "s", "p", "a", "c", "e", "/", "n", "e", "w", "l", "i", "n", "e">>

whitespace_tabs == <<"w", "h", "i", "t", "e", "s", "p", "a", "c", "e", "/", "t", "a", "b", "s">>

\* _ERROR_CATEGORIES.split(), also _lint_state.allowed_categories
ERROR_CATEGORIES == <<convention_filename, cat_linelength, package_consistency,
                      package_stdargs, readability_logic, readability_mixedcase,
                      readability_wonkycase, syntax, whitespace_eol, whitespace_extra,
                      whitespace_indent, whitespace_mismatch, whitespace_newline,
                      whitespace_tabs>>

Categories == {ERROR_CATEGORIES[i] : i \in 1..Len(ERROR_CATEGORIES)}

---------------------------------------------------------------------------
(* _CMakeLintState.set_filters, should_print_error, error *)

\* [f.strip() for f in filters.split(",") if f]
RECURSIVE strip_nonempty(_)
strip_nonempty(pieces) == IF pieces = <<>> THEN <<>>
                          ELSE IF Head(pieces) = <<>> THEN strip_nonempty(Tail(pieces))
                          ELSE <<strip(Head(pieces))>> \o strip_nonempty(Tail(pieces))

\* one pass of the validation loop: f starts with a sign and f[1:] is a prefix of a category
filter_allowed(f) == /\ (startswith(f, <<"-">>) \/ startswith(f, <<"+">>))
                     /\ \E c \in Categories : startswith(c, from(f, 1))

\* the validation loop of set_filters over the whole list: ValueError at the first
\* element that is not allowed
validated(fs) == [filters |-> fs, raised |-> \E i \in 1..Len(fs) : ~filter_allowed(fs[i])]

\* set_filters(filters) on the list fs: the list afterwards, and whether ValueError is raised.
\* The list is extended first and validated afterwards, every element of it.
set_filters(fs, new) == IF new = None \/ new = <<>> THEN [filters |-> fs, raised |-> FALSE]
                        ELSE validated(fs \o strip_nonempty(split(new, ",")))

\* should_print_error(category) under the filter list fs: the last matching filter decides
RECURSIVE should_print_from(_, _, _)
should_print_from(fs, category, should_print) ==
    IF fs = <<>> THEN should_print
    ELSE LET f == Head(fs)
         IN should_print_from(Tail(fs), category,
              IF startswith(f, <<"-">>) /\ startswith(category, from(f, 1)) THEN FALSE
              ELSE IF startswith(f, <<"+">>) /\ startswith(category, from(f, 1)) THEN TRUE
              ELSE should_print)

\* should_print_error with the "+" branch lost: any matching "-" filter suppresses
RECURSIVE should_print_no_plus(_, _)
should_print_no_plus(fs, category) ==
    IF fs = <<>> THEN TRUE
    ELSE IF startswith(Head(fs), <<"-">>) /\ startswith(category, from(Head(fs), 1)) THEN FALSE
    ELSE should_print_no_plus(Tail(fs), category)

should_print_error(fs, category) == should_print_from(fs, category, TRUE)

\* The part of the program state the checks read and write, threaded through them:
\* m.filters, m.errors, m.printed, m.reported, m.inc, m.used, m.seen, m.exc
\* error(filename, linenumber, category, message)
error(m, ln, category) ==
    IF should_print_error(m.filters, category)
    THEN [m EXCEPT !.reported = Append(@, <<ln, category>>),
                   !.errors = @ + 1, !.printed = Append(@, <<ln, category>>)]
    ELSE [m EXCEPT !.reported = Append(@, <<ln, category>>)]

---------------------------------------------------------------------------
(* clean_comments and CleansedLines *)

\* the for loop of clean_comments from character i on; prev is the character before
RECURSIVE clean_loop(_, _, _, _, _)
clean_loop(line, i, q, prior, prev) ==
    IF i > Len(line) THEN [prior |-> prior, quote |-> q]
    ELSE LET char == line[i]
         IN IF char = "\""
            THEN IF prev # "\\"
                 THEN clean_loop(line, i + 1, ~q, Append(prior, char), char)
                 ELSE clean_loop(line, i + 1, q, prior, char)
            ELSE IF char = "#" /\ ~q
            THEN [prior |-> prior, quote |-> q]
            ELSE clean_loop(line, i + 1, q, IF ~q THEN Append(prior, char) ELSE prior, char)

\* the end of clean_comments: "".join(prior).rstrip(), quote
cleaned(r) == [line |-> rstrip(r.prior), quote |-> r.quote]

\* clean_comments(line, quote): the cleansed line and the quote flag carried on
clean_comments(line, q) ==
    IF ~contains(line, "#") /\ ~contains(line, "\"")
    THEN IF q THEN [line |-> <<>>, quote |-> q] ELSE [line |-> line, quote |-> q]
    ELSE cleaned(clean_loop(line, 1, q, <<>>, ""))

\* CleansedLines.__init__: the loop over the raw lines, from quote state q;
\* cleansed_rest is the loop after the line whose result is r
RECURSIVE CleansedLines(_, _)
cleansed_rest(raw, r) == <<r.line>> \o CleansedLines(Tail(raw), r.quote)

CleansedLines(raw, q) ==
    IF raw = <<>> THEN <<>> ELSE cleansed_rest(raw, clean_comments(Head(raw), q))

\* the element of a Python list at 0-based index n
At(list, n) == list[n + 1]

---------------------------------------------------------------------------
(* the regular expressions *)

\* the first index >= i of s that holds no whitespace (Len(s) + 1 if none)
RECURSIVE SkipSpaces(_, _)
SkipSpaces(s, i) == IF i <= Len(s) /\ IsSpace(s[i]) THEN SkipSpaces(s, i + 1) ELSE i

\* the first index >= i of s that holds no word character (Len(s) + 1 if none)
RECURSIVE SkipWord(_, _)
SkipWord(s, i) == IF i <= Len(s) /\ IsWord(s[i]) THEN SkipWord(s, i + 1) ELSE i

\* _RE_COMMAND.match(line): ^\s*(\w+)(\s*)\(
RE_COMMAND(line) ==
    LET a == SkipSpaces(line, 1)
        b == SkipWord(line, a)
        c == SkipSpaces(line, b)
    IN IF b > a /\ c <= Len(line) /\ line[c] = "("
       THEN [matched |-> TRUE, group1 |-> SubSeq(line, a, b - 1), group2 |-> c - b, open |-> c]
       ELSE [matched |-> FALSE, group1 |-> <<>>, group2 |-> 0, open |-> 0]

\* len(_RE_COMMAND_START_SPACES.match(line).group(1)): ^\s*\w+\s*\((\s*)
RE_COMMAND_START_SPACES(line) ==
    LET open == RE_COMMAND(line).open IN SkipSpaces(line, open + 1) - (open + 1)

\* _RE_COMMAND_END_SPACES.search(line): (\s*)\) at the leftmost position it matches
RE_COMMAND_END_SPACES(line) ==
    LET hits == {p \in 1..Len(line) : LET c == SkipSpaces(line, p) IN c <= Len(line) /\ line[c] = ")"}
    IN IF hits = {} THEN [matched |-> FALSE, group1 |-> 0]
       ELSE LET p == CHOOSE x \in hits : \A y \in hits : x <= y
            IN [matched |-> TRUE, group1 |-> SkipSpaces(line, p) - p]

\* _RE_LOGIC_CHECK.search(line): (\w+)\s*\(\s*\S+[^)]+\) matches somewhere
RE_LOGIC_CHECK(line) ==
    \E w \in 1..Len(line) :
        /\ IsWord(line[w])
        /\ LET o == SkipSpaces(line, w + 1)
               s == SkipSpaces(line, o + 1)
           IN /\ o <= Len(line) /\ line[o] = "("
              /\ \E t \in s..Len(line), u \in s..Len(line) :
                    /\ t < u /\ u < Len(line) /\ line[u + 1] = ")"
                    /\ \A k \in s..t : ~IsSpace(line[k])
                    /\ \A k \in (t + 1)..u : line[k] # ")"

\* re.search(r"\b%s\b" % cmd, text)
word_search(cmd, text) ==
    \E i \in 1..(Len(text) - Len(cmd) + 1) :
        /\ SubSeq(text, i, i + Len(cmd) - 1) = cmd
        /\ (i = 1 \/ ~IsWord(text[i - 1]))
        /\ (i + Len(cmd) > Len(text) \/ ~IsWord(text[i + Len(cmd)]))

\* the (\w+) tokens of _RE_COMMAND_ARG.finditer(line) from index i on, left to right
RECURSIVE RE_COMMAND_ARG(_, _)
RE_COMMAND_ARG(line, i) ==
    IF i > Len(line) THEN <<>>
    ELSE IF ~IsWord(line[i]) THEN RE_COMMAND_ARG(line, i + 1)
    ELSE LET e == SkipWord(line, i)
         IN <<SubSeq(line, i, e - 1)>> \o RE_COMMAND_ARG(line, e)

logic_commands == {<<"e", "l", "s", "e">>,
                   <<"e", "n", "d", "f", "o", "r", "e", "a", "c", "h">>,
                   <<"e", "n", "d", "f", "u", "n", "c", "t", "i", "o", "n">>,
                   <<"e", "n", "d", "i", "f">>,
                   <<"e", "n", "d", "m", "a", "c", "r", "o">>,
                   <<"e", "n", "d", "w", "h", "i", "l", "e">>}

---------------------------------------------------------------------------
(* the per-line checks; each maps the threaded state m to the state after it *)

\* check_line_length
check_line_length(m, ln, raw, ll) ==
    IF Len(At(raw, ln)) > ll THEN error(m, ln, cat_linelength) ELSE m

contains_command(line) == RE_COMMAND(line).matched

get_command(line) == RE_COMMAND(line).group1

is_command_mixed_case(command) == ~(command = lower(command) \/ command = upper(command))

\* a Python bool, as the string its repr is ("None" is the third value a flag may hold)
bool(b) == IF b THEN "True" ELSE "False"

is_command_upper_case(command) == command = upper(command)

\* check_upper_lower_case looking at the casing inside a command only until the file's
\* casing is known
check_case_until_seen(m, ln, cl) ==
    IF ~contains_command(At(cl, ln)) THEN m
    ELSE IF is_command_mixed_case(get_command(At(cl, ln))) /\ m.seen = "None" THEN error(m, ln, readability_wonkycase)
    ELSE IF m.seen = "None" THEN [m EXCEPT !.seen = bool(is_command_upper_case(get_command(At(cl, ln))))]
    ELSE IF bool(is_command_upper_case(get_command(At(cl, ln)))) # m.seen THEN error(m, ln, readability_mixedcase)
    ELSE m

\* check_upper_lower_case; m.seen is clean_lines.have_seen_uppercase ("None", "True" or "False")
check_upper_lower_case(m, ln, cl) ==
    LET line == At(cl, ln)
        command == get_command(line)
    IN IF ~contains_command(line) THEN m
       ELSE IF is_command_mixed_case(command) THEN error(m, ln, readability_wonkycase)
       ELSE IF m.seen = "None" THEN [m EXCEPT !.seen = bool(is_command_upper_case(command))]
       ELSE IF bool(is_command_upper_case(command)) # m.seen THEN error(m, ln, readability_mixedcase)
       ELSE m

RECURSIVE get_initial_spaces_from(_, _)
get_initial_spaces_from(line, n) ==
    IF n < Len(line) /\ line[n + 1] = " " THEN get_initial_spaces_from(line, n + 1) ELSE n

get_initial_spaces(line) == get_initial_spaces_from(line, 0)

\* the while loop of check_command_spaces: the first line from n on that holds a ")",
\* or len(clean_lines.lines) when there is none
RECURSIVE find_end_line(_, _)
find_end_line(cl, n) ==
    IF n >= Len(cl) THEN Len(cl)
    ELSE IF RE_COMMAND_END_SPACES(At(cl, n)).matched THEN n
    ELSE find_end_line(cl, n + 1)

\* check_command_spaces
check_command_spaces(m, ln, cl) ==
    LET line == At(cl, ln)
        match == RE_COMMAND(line)
        m1 == IF match.matched /\ match.group2 > 0 THEN error(m, ln, whitespace_extra) ELSE m
    IN IF ~match.matched THEN m1
       ELSE LET spaces_after_open == RE_COMMAND_START_SPACES(line)
                endln == find_end_line(cl, ln)
            IN IF endln = Len(cl) THEN error(m1, ln, syntax)
               ELSE LET endline == At(cl, endln)
                        before == RE_COMMAND_END_SPACES(endline).group1
                        initial_spaces == get_initial_spaces(endline)
                        spaces_before_end == IF ln # endln /\ before >= initial_spaces
                                             THEN before - initial_spaces ELSE before
                    IN IF spaces_after_open # spaces_before_end
                       THEN error(m1, ln, whitespace_mismatch) ELSE m1

\* check_repeat_logic
check_repeat_logic(m, ln, cl) ==
    LET line == At(cl, ln)
    IN IF (\E cmd \in logic_commands : word_search(cmd, lower(line))) /\ RE_LOGIC_CHECK(line)
       THEN error(m, ln, readability_logic) ELSE m

\* check_indent; a zero indentation width makes the modulo raise ZeroDivisionError
check_indent(m, ln, raw, sp) ==
    LET initial_spaces == get_initial_spaces(At(raw, ln))
        width == IF sp < 0 THEN 0 - sp ELSE sp
    IN IF sp = 0 THEN [m EXCEPT !.exc = "ZeroDivisionError"]
       ELSE IF initial_spaces % width # 0 THEN error(m, ln, whitespace_indent) ELSE m

\* check_style: the tab test
check_tabs(m, ln, raw) ==
    IF contains(At(raw, ln), "\t") THEN error(m, ln, whitespace_tabs) ELSE m

\* check_style: the trailing whitespace test
check_eol(m, ln, raw) ==
    IF At(raw, ln) # <<>> /\ IsSpace(At(raw, ln)[Len(At(raw, ln))])
    THEN error(m, ln, whitespace_eol) ELSE m

\* check_style after check_indent, which may have raised
check_style_rest(m, ln, raw, cl) ==
    IF m.exc # "" THEN m
    ELSE check_repeat_logic(
           check_eol(check_tabs(check_command_spaces(m, ln, cl), ln, raw), ln, raw), ln, cl)

\* check_style
check_style(m, ln, raw, cl, sp) == check_style_rest(check_indent(m, ln, raw, sp), ln, raw, cl)

---------------------------------------------------------------------------
(* file names and the Find-module package tracker *)

dot_cmake == <<".", "c", "m", "a", "k", "e">>

Find == <<"F", "i", "n", "d">>

\* the start of the last ".cmake" of name that begins after the first four characters
last_dot_cmake(name) ==
    LET hits == {i \in 5..(Len(name) - 5) : SubSeq(name, i, i + 5) = dot_cmake}
    IN IF hits = {} THEN 0 ELSE CHOOSE i \in hits : \A j \in hits : j <= i

\* re.match(r"Find(.*)\.cmake", name): whether it matches, and group(1)
RE_FIND_MODULE(name) ==
    IF startswith(name, Find) /\ last_dot_cmake(name) # 0
    THEN [matched |-> TRUE, group1 |-> SubSeq(name, 5, last_dot_cmake(name) - 1)]
    ELSE [matched |-> FALSE, group1 |-> <<>>]

\* check_file_name
check_file_name(m, fname) ==
    LET name_match == RE_FIND_MODULE(basename(fname))
    IN IF name_match.matched
       THEN IF ~isupper(name_match.group1) THEN error(m, 0, convention_filename) ELSE m
       ELSE IF lower(fname) = <<"c", "m", "a", "k", "e", "l", "i", "s", "t", "s", ".", "t", "x", "t">> /\ fname # <<"C", "M", "a", "k", "e", "L", "i", "s", "t", "s", ".", "t", "x", "t">>
            THEN error(m, 0, convention_filename) ELSE m

\* is_find_package
is_find_package(fname) == startswith(basename(fname), Find) /\ endswith(fname, dot_cmake)

\* is_valid_file
is_valid_file(fname) == endswith(fname, dot_cmake) \/ lower(basename(fname)) = <<"c", "m", "a", "k", "e", "l", "i", "s", "t", "s", ".", "t", "x", "t">>

\* _CMakePackageState._get_expected: re.sub(r"^Find(.*)\.cmake", group 1, basename).upper()
get_expected(fname) ==
    LET package == basename(fname)
        mt == RE_FIND_MODULE(package)
    IN IF mt.matched THEN upper(mt.group1 \o from(package, last_dot_cmake(package) + 5))
       ELSE upper(package)

\* _CMakePackageState.done: the two findings; m.inc and m.used are the two flags
done_included(m, fname) ==
    IF is_find_package(fname) /\ ~(m.inc /\ m.used) /\ ~m.inc
    THEN error(m, 0, package_consistency) ELSE m

\* done without its second test: a missing use is not reported
done_used_never(m, fname) == m

done_used(m, fname) ==
    IF is_find_package(fname) /\ ~(m.inc /\ m.used) /\ ~m.used
    THEN error(m, 0, package_consistency) ELSE m

\* the finally clause of done
done_finally(m) == [m EXCEPT !.used = FALSE, !.inc = FALSE]

\* _CMakePackageState.done
done(m, fname) == done_finally(done_used(done_included(m, fname), fname))

\* have_used_standard_args setting the flag only for the expected variable
have_used_if_expected(m, fname, ln, var) ==
    IF get_expected(fname) # var
    THEN error(m, ln, package_stdargs)
    ELSE [m EXCEPT !.used = TRUE]

\* _CMakePackageState.have_used_standard_args
have_used_standard_args(m, fname, ln, var) ==
    IF get_expected(fname) # var
    THEN error([m EXCEPT !.used = TRUE], ln, package_stdargs)
    ELSE [m EXCEPT !.used = TRUE]

\* _CMakePackageState.have_included
have_included(m, var) ==
    IF var = <<"F", "i", "n", "d", "P", "a", "c", "k", "a", "g", "e", "H", "a", "n", "d", "l", "e", "S", "t", "a", "n", "d", "a", "r", "d", "A", "r", "g", "s">> THEN [m EXCEPT !.inc = TRUE] ELSE m

\* the while loop of get_command_argument from line n on: the first token that is not
\* skip, or IndexError when the lines run out; toks are the tokens of line n
RECURSIVE get_command_argument_from(_, _, _)
first_argument(cl, n, skip, toks) ==
    IF toks # <<>> THEN [raised |-> FALSE, value |-> Head(toks)]
    ELSE get_command_argument_from(cl, n + 1, skip)

get_command_argument_from(cl, n, skip) ==
    IF n >= Len(cl) THEN [raised |-> TRUE, value |-> <<>>]
    ELSE first_argument(cl, n, skip, SelectSeq(RE_COMMAND_ARG(At(cl, n), 1), LAMBDA x : x # skip))

\* get_command_argument
get_command_argument(ln, cl) == get_command_argument_from(cl, ln, get_command(At(cl, ln)))

\* check_find_package for an include command whose argument lookup gave var_name
included(m, var_name) ==
    IF var_name.raised THEN [m EXCEPT !.exc = "IndexError"] ELSE have_included(m, var_name.value)

\* check_find_package for a find_package_handle_standard_args command
used_standard_args(m, fname, ln, var_name) ==
    IF var_name.raised THEN [m EXCEPT !.exc = "IndexError"]
    ELSE have_used_standard_args(m, fname, ln, var_name.value)

\* check_find_package
check_find_package(m, fname, ln, cl) ==
    IF get_command(At(cl, ln)) = <<>> THEN m
    ELSE IF lower(get_command(At(cl, ln))) = <<"i", "n", "c", "l", "u", "d", "e">>
    THEN included(m, get_command_argument(ln, cl))
    ELSE IF lower(get_command(At(cl, ln))) = <<"f", "i", "n", "d", "_", "p", "a", "c", "k", "a", "g", "e", "_", "h", "a", "n", "d", "l", "e", "_", "s", "t", "a", "n", "d", "a", "r", "d", "_", "a", "r", "g", "s">>
    THEN used_standard_args(m, fname, ln, get_command_argument(ln, cl))
    ELSE m

---------------------------------------------------------------------------
(* pragmas, process_line *)

linter_pragma_start == <<"#", " ", "l", "i", "n", "t", "_", "c", "m", "a", "k", "e", ":", " ">>

\* check_lint_pragma without its except clause: the ValueError leaves process_line
pragma_set_raises(m, ln, r, with_errors) ==
    IF r.raised THEN [m EXCEPT !.filters = r.filters, !.exc = "ValueError"]
    ELSE [m EXCEPT !.filters = r.filters]

\* check_lint_pragma once set_filters gave r: the list is extended, and ValueError
\* becomes a syntax finding when there is an errors callback
pragma_set(m, ln, r, with_errors) ==
    IF r.raised /\ with_errors THEN error([m EXCEPT !.filters = r.filters], ln, syntax)
    ELSE [m EXCEPT !.filters = r.filters]

\* check_lint_pragma(filename, linenumber, line, errors); with_errors is whether the
\* errors callback was passed
check_lint_pragma(m, ln, line, with_errors) ==
    IF ~startswith(line, linter_pragma_start) THEN m
    ELSE pragma_set(m, ln, set_filters(m.filters, from(line, Len(linter_pragma_start))), with_errors)

\* process_line after check_style, which may have raised
process_line_package(m, fname, ln, cl) ==
    IF m.exc # "" THEN m
    ELSE IF is_find_package(fname) THEN check_find_package(m, fname, ln, cl)
    ELSE m

\* process_line; a check that raises ends it
process_line(m, fname, ln, raw, cl, sp, ll) ==
    process_line_package(
      check_style(
        check_upper_lower_case(
          check_line_length(check_lint_pragma(m, ln, At(raw, ln), TRUE), ln, raw, ll),
          ln, cl),
        ln, raw, cl, sp),
      fname, ln, cl)

---------------------------------------------------------------------------
(* parse_option_file and parse_args *)

DefaultSpaces == 2

DefaultLineLength == 80

\* _DEFAULT_CMAKELINTRC, as default_rc() finds it in the working directory
DEFAULT_CMAKELINTRC == <<".", "c", "m", "a", "k", "e", "l", "i", "n", "t", "r", "c">>

digit_value(c) == CHOOSE n \in 0..9 : <<"0", "1", "2", "3", "4", "5", "6", "7", "8", "9">>[n + 1] = c

RECURSIVE digits_value(_, _)
digits_value(s, acc) == IF s = <<>> THEN acc ELSE digits_value(Tail(s), 10 * acc + digit_value(Head(s)))

\* int(s) on a str: surrounding whitespace, an optional sign, decimal digits;
\* anything else raises ValueError
int(s) ==
    LET b == strip(s)
        signed == b # <<>> /\ b[1] \in {"+", "-"}
        d == IF signed THEN Tail(b) ELSE b
    IN IF d = <<>> \/ \E i \in 1..Len(d) : d[i] \notin Digits
       THEN [raised |-> TRUE, value |-> 0]
       ELSE [raised |-> FALSE,
             value |-> IF signed /\ b[1] = "-" THEN 0 - digits_value(d, 0) ELSE digits_value(d, 0)]

\* s.replace(old, "")
RECURSIVE remove_all(_, _)
remove_all(s, old) ==
    IF Len(s) < Len(old) THEN s
    ELSE IF SubSeq(s, 1, Len(old)) = old THEN remove_all(from(s, Len(old)), old)
    ELSE <<Head(s)>> \o remove_all(Tail(s), old)

opt_filter == <<"f", "i", "l", "t", "e", "r", "=">>

opt_spaces == <<"s", "p", "a", "c", "e", "s", "=">>

opt_linelength == <<"l", "i", "n", "e", "l", "e", "n", "g", "t", "h", "=">>

opt_quiet == <<"q", "u", "i", "e", "t">>

\* the for loop of parse_option_file: the last value each option is given
RECURSIVE option_lines(_, _)
option_lines(contents, acc) ==
    IF contents = <<>> THEN acc
    ELSE LET line == strip(Head(contents))
         IN IF line = <<>> \/ startswith(line, <<"#">>) THEN option_lines(Tail(contents), acc)
            ELSE option_lines(Tail(contents),
                   [filters |-> IF startswith(line, opt_filter) THEN remove_all(line, opt_filter) ELSE acc.filters,
                    spaces |-> IF startswith(line, opt_spaces) THEN remove_all(line, opt_spaces) ELSE acc.spaces,
                    quiet |-> acc.quiet \/ line = opt_quiet,
                    linelength |-> IF startswith(line, opt_linelength) THEN remove_all(line, opt_linelength) ELSE acc.linelength])

\* a set_filters result stored in the lint state st
with_filters(st, f) == [st EXCEPT !.filters = f.filters, !.raised = f.raised]

\* set_spaces(int(...)) and set_line_length(int(...)); int may raise ValueError
with_spaces(st, n) == IF n.raised THEN [st EXCEPT !.raised = TRUE] ELSE [st EXCEPT !.spaces = n.value]

with_linelength(st, n) == IF n.raised THEN [st EXCEPT !.raised = TRUE] ELSE [st EXCEPT !.linelength = n.value]

\* parse_option_file after its loop gave the options o: quiet was set in the loop, then
\* the filters, then the spaces unless the command line gave them, then the line length
option_filters(st, o) == with_filters([st EXCEPT !.quiet = @ \/ o.quiet], set_filters(st.filters, o.filters))

option_spaces(st, o, ignore_space) ==
    IF st.raised \/ o.spaces = None \/ o.spaces = <<>> \/ ignore_space THEN st
    ELSE with_spaces(st, int(o.spaces))

option_linelength(st, o) ==
    IF st.raised \/ o.linelength = None THEN st ELSE with_linelength(st, int(o.linelength))

apply_options(st, o, ignore_space) ==
    option_linelength(option_spaces(option_filters(st, o), o, ignore_space), o)

\* parse_option_file(contents, ignore_space) on the lint state st; a ValueError leaves
\* what was assigned before it
parse_option_file(st, contents, ignore_space) ==
    apply_options(st, option_lines(contents, [filters |-> None, spaces |-> None, quiet |-> FALSE, linelength |-> None]),
                  ignore_space)

\* no configuration file
NoRc == [isfile |-> FALSE, contents |-> <<>>]

NoInt == [given |-> FALSE, value |-> 0]

SomeInt(n) == [given |-> TRUE, value |-> n]

\* the namespace of an empty command line
NoArgs == [filter |-> None, config |-> None, spaces |-> NoInt, linelength |-> NoInt, quiet |-> FALSE]

Init ==
    /\ pc = "start"
    /\ filters = <<>>
    /\ errors = 0
    /\ spaces = DefaultSpaces
    /\ linelength = DefaultLineLength
    /\ quiet = FALSE
    /\ config = DEFAULT_CMAKELINTRC
    /\ args = NoArgs
    /\ rcfile = NoRc
    /\ have_included_stdargs = FALSE
    /\ have_used_stdargs = FALSE
    /\ filename = <<>>
    /\ raw_lines = <<>>
    /\ lines = <<>>
    /\ have_seen_uppercase = "None"
    /\ linenumber = 0
    /\ original_filters = <<>>
    /\ quote = FALSE
    /\ printed = <<>>
    /\ reported = <<>>
    /\ outcome = "none"
    /\ nfiles = 0

\* parse_args: _lint_state.config after the --config option
cli_config(a) == IF a.config = None THEN config
                 ELSE IF a.config = <<"N", "o", "n", "e">> THEN None ELSE a.config

\* parse_args: the lint state after --linelength and --spaces
cli_state(a) == [filters |-> filters, quiet |-> quiet, raised |-> FALSE,
                 linelength |-> IF a.linelength.given THEN a.linelength.value ELSE linelength,
                 spaces |-> IF a.spaces.given THEN a.spaces.value ELSE spaces]

\* --filter= with nothing after it prints the categories and exits
print_categories(a) == a.filter # None /\ a.filter = <<>>

\* _lint_state.config and os.path.isfile(_lint_state.config)
reads_config(cfg, rc) == cfg # None /\ cfg # <<>> /\ rc.isfile

\* set_filters(args.filter), unless parse_option_file raised
arg_filter(st, a) == IF st.raised THEN st ELSE with_filters(st, set_filters(st.filters, a.filter))

\* the try block of parse_args: the configuration file, then the command line's filter
load(st, a, rc, read) ==
    arg_filter(IF read THEN parse_option_file(st, rc.contents, a.spaces.given) ELSE st, a)

\* the lint state parse_args leaves
parsed_state(a, rc) ==
    IF print_categories(a) THEN cli_state(a)
    ELSE load([cli_state(a) EXCEPT !.quiet = a.quiet], a, rc, reads_config(cli_config(a), rc))

\* parse_args ends with the lint state st: a ValueError is a usage error
parsed(a, rc, st) ==
    /\ pc = "start"
    /\ args' = a
    /\ rcfile' = IF reads_config(cli_config(a), rc) /\ ~print_categories(a) THEN rc ELSE NoRc
    /\ config' = cli_config(a)
    /\ filters' = st.filters
    /\ quiet' = st.quiet
    /\ spaces' = st.spaces
    /\ linelength' = st.linelength
    /\ pc' = IF print_categories(a) \/ st.raised THEN "exit" ELSE "idle"
    /\ outcome' = IF print_categories(a) THEN "categories" ELSE IF st.raised THEN "usage" ELSE "parsed"
    /\ UNCHANGED <<errors, have_included_stdargs, have_used_stdargs, filename, raw_lines,
                   lines, have_seen_uppercase, linenumber, original_filters, quote,
                   printed, reported, nfiles>>

\* parse_args(argv) for the options a, with rc the configuration file found at
\* _lint_state.config ([isfile, contents]); the files named on the command line are
\* the process_file calls that follow
parse_args(a, rc) == parsed(a, rc, parsed_state(a, rc))

---------------------------------------------------------------------------
(* process_file *)

\* os.linesep of the host
os_linesep == <<"\n">>

line_start == <<"#", " ", "L", "i", "n", "e", "s", " ", "s", "t", "a", "r", "t", " ", "a", "t", " ", "1">>

line_end == <<"#", " ", "L", "i", "n", "e", "s", " ", "e", "n", "d", " ", "h", "e", "r", "e">>

\* line.rstrip("\r")
RECURSIVE rstrip_cr(_)
rstrip_cr(line) == IF line # <<>> /\ line[Len(line)] = "\r" THEN rstrip_cr(SubSeq(line, 1, Len(line) - 1)) ELSE line

\* the read loop without its check_lint_pragma call
read_line_no_pragma(r, text, line) ==
    [lines |-> Append(r.lines, line),
     have_cr |-> r.have_cr \/ endswith(text, <<"\r">>),
     m |-> r.m]

\* the read loop of _process_file over the lines of the file (their "\n" removed):
\* r.lines grows, r.have_cr is set, and each line is offered to check_lint_pragma
\* without an errors callback
RECURSIVE read_lines(_, _)
read_line(r, text, line) ==
    [lines |-> Append(r.lines, line),
     have_cr |-> r.have_cr \/ endswith(text, <<"\r">>),
     m |-> check_lint_pragma(r.m, Len(r.lines), line, FALSE)]

read_lines(content, r) ==
    IF content = <<>> THEN r
    ELSE read_lines(Tail(content), read_line(r, Head(content), rstrip_cr(Head(content))))

\* process_file without its finally clause: the filters of the file stay
restore_filters_never(original, current) == current

\* the finally clause of process_file: the filters are put back
restore_filters(original, current) == original

\* the threaded state, from the variables
Mem == [filters |-> filters, errors |-> errors, printed |-> printed, reported |-> reported,
        inc |-> have_included_stdargs, used |-> have_used_stdargs,
        seen |-> have_seen_uppercase, exc |-> ""]

\* process_file returns or raises: clean_lines and original_filters are gone
Return(m, how, original) ==
    /\ pc' = "idle"
    /\ outcome' = how
    /\ filters' = restore_filters(original, m.filters)
    /\ original_filters' = <<>>
    /\ errors' = m.errors
    /\ printed' = m.printed
    /\ reported' = m.reported
    /\ have_included_stdargs' = m.inc
    /\ have_used_stdargs' = m.used
    /\ raw_lines' = <<>>
    /\ lines' = <<>>
    /\ have_seen_uppercase' = "None"
    /\ linenumber' = 0

\* a new _CMakePackageState, and the findings of a new file
fresh(m) == [m EXCEPT !.printed = <<>>, !.reported = <<>>, !.inc = FALSE, !.used = FALSE]

\* the carriage-return finding of _process_file
check_newline(m, have_cr) ==
    IF have_cr /\ os_linesep # <<"\r", "\n">> THEN error(m, 0, whitespace_newline) ELSE m

\* _process_file from the end of the read loop (raw are the lines read, m the state
\* after the file-name and carriage-return checks) to the loop over the lines
enter_lines(raw, m) ==
    /\ pc' = "lines"
    /\ outcome' = "running"
    /\ original_filters' = filters
    /\ raw_lines' = raw
    /\ lines' = CleansedLines(raw, FALSE)
    /\ have_seen_uppercase' = "None"
    /\ linenumber' = 0
    /\ filters' = m.filters
    /\ errors' = m.errors
    /\ printed' = m.printed
    /\ reported' = m.reported
    /\ have_included_stdargs' = m.inc
    /\ have_used_stdargs' = m.used

read_file(fname, r) ==
    enter_lines(Append(r.lines, line_end), check_newline(check_file_name(r.m, fname), r.have_cr))

\* process_file(f.name) up to the loop over the lines: the filters are saved, an
\* ineligible file is ignored, open() raises for a file that cannot be read, otherwise
\* the file is read, its name checked and its lines cleansed
process_file(f, limit) ==
    /\ pc = "idle"
    /\ nfiles < limit
    /\ nfiles' = nfiles + 1
    /\ filename' = f.name
    /\ UNCHANGED <<spaces, linelength, quiet, config, args, rcfile, quote>>
    /\ IF ~is_valid_file(f.name)
       THEN Return([Mem EXCEPT !.printed = <<>>, !.reported = <<>>], "ignored", filters)
       ELSE IF ~f.readable THEN Return(fresh(Mem), "raised", filters)
       ELSE read_file(f.name, read_lines(f.content, [lines |-> <<line_start>>, have_cr |-> FALSE, m |-> fresh(Mem)]))

\* the loop goes on after process_line left m, or the exception leaves process_file
after_line(m) ==
    IF m.exc # "" THEN Return(m, "raised", original_filters)
    ELSE /\ linenumber' = linenumber + 1
         /\ filters' = m.filters
         /\ errors' = m.errors
         /\ printed' = m.printed
         /\ reported' = m.reported
         /\ have_included_stdargs' = m.inc
         /\ have_used_stdargs' = m.used
         /\ have_seen_uppercase' = m.seen
         /\ UNCHANGED <<pc, outcome, raw_lines, lines, original_filters>>

\* one turn of the loop "for line in clean_lines.line_numbers()": process_line, which
\* either completes or raises out of process_file
process_line_step ==
    /\ pc = "lines"
    /\ linenumber < Len(lines)
    /\ UNCHANGED <<spaces, linelength, quiet, config, args, rcfile, quote, nfiles, filename>>
    /\ after_line(process_line(Mem, filename, linenumber, raw_lines, lines, spaces, linelength))

\* the end of _process_file: _package_state.done, then process_file's finally
process_file_end ==
    /\ pc = "lines"
    /\ linenumber = Len(lines)
    /\ UNCHANGED <<spaces, linelength, quiet, config, args, rcfile, quote, nfiles, filename>>
    /\ Return(done(Mem, filename), "processed", original_filters)

---------------------------------------------------------------------------
(* inputs *)

\* the sequences over S of length at most n
SeqsUpTo(S, n) == UNION {[1..k -> S] : k \in 0..n}

File(name, content) == [name |-> name, readable |-> TRUE, content |-> content]

\* a path is_valid_file refuses, and a path open() cannot read
IgnoredFile == [name |-> <<"n", "o", "t", "e", "s", ".", "t", "x", "t">>, readable |-> TRUE, content |-> <<>>]

MissingFile == [name |-> <<"g", "o", "n", "e", ".", "c", "m", "a", "k", "e">>, readable |-> FALSE, content |-> <<>>]

CMakeLists_txt == <<"C", "M", "a", "k", "e", "L", "i", "s", "t", "s", ".", "t", "x", "t">>

FindFOO_cmake == <<"F", "i", "n", "d", "F", "O", "O", ".", "c", "m", "a", "k", "e">>

pragma_no_tabs == <<"#", " ", "l", "i", "n", "t", "_", "c", "m", "a", "k", "e", ":", " ", "-", "w", "h", "i", "t", "e", "s", "p", "a", "c", "e", "/", "t", "a", "b", "s">>

pragma_tabs == <<"#", " ", "l", "i", "n", "t", "_", "c", "m", "a", "k", "e", ":", " ", "+", "w", "h", "i", "t", "e", "s", "p", "a", "c", "e", "/", "t", "a", "b", "s">>

pragma_no_sign == <<"#", " ", "l", "i", "n", "t", "_", "c", "m", "a", "k", "e", ":", " ", "t", "a", "b", "s">>

pragma_unknown == <<"#", " ", "l", "i", "n", "t", "_", "c", "m", "a", "k", "e", ":", " ", "-", "s", "y", "n", "t", "a", "x", ",", " ", "-", "b", "o", "g", "u", "s">>

tab_line == <<"\t", "s", "e", "t", "(", "a", ")">>

\* a command on a tab-indented line; in a Find module its argument lookup finds no token
tab_include == <<"\t", "i", "n", "c", "l", "u", "d", "e", "(", ")">>

---------------------------------------------------------------------------
(* SpecFiles: any sequence of process_file calls *)

MaxFiles == 2

MaxFileLines == 2

FilesArgs == {NoArgs, [NoArgs EXCEPT !.filter = <<"-", "w", "h", "i", "t", "e", "s", "p", "a", "c", "e">>]}

FilesLines == {pragma_no_tabs, pragma_tabs, tab_include}

FilesFiles == {IgnoredFile, MissingFile}
              \cup {File(n, c) : n \in {CMakeLists_txt, FindFOO_cmake}, c \in SeqsUpTo(FilesLines, MaxFileLines)}

NextFiles ==
    \/ \E a \in FilesArgs : parse_args(a, NoRc)
    \/ \E f \in FilesFiles : process_file(f, MaxFiles)
    \/ process_line_step
    \/ process_file_end

SpecFiles == Init /\ [][NextFiles]_vars

\* the filter list parse_args leaves: the configuration file's filters, then the
\* command line's
ConfiguredFilters ==
    set_filters(
      IF ~rcfile.isfile THEN <<>>
      ELSE set_filters(<<>>, option_lines(rcfile.contents, [filters |-> None, spaces |-> None, quiet |-> FALSE, linelength |-> None]).filters).filters,
      args.filter).filters

\* C1: whenever no process_file call is running, the active filter list is the one the
\* first call started with, however each call ended (processed, ignored, raised): no
\* pragma of a file is in force for a later file.
C1_FiltersRestored == pc = "idle" => filters = ConfiguredFilters

\* the category was reported for the last file and not printed
Suppressed(category) == \E i \in 1..Len(reported) :
    /\ reported[i][2] = category
    /\ \A j \in 1..Len(printed) : printed[j] # reported[i]

\* C1 witness: a second process_file call raised after a pragma of that file had
\* suppressed a whitespace/tabs finding, and the filters in force afterwards print
\* that category again.
C1_Witness ==
    /\ pc = "idle" /\ outcome = "raised" /\ nfiles = 2
    /\ Suppressed(whitespace_tabs)
    /\ should_print_error(filters, whitespace_tabs)

---------------------------------------------------------------------------
(* SpecPragma: one file with filter directives *)

MaxPragmaFiles == 1

MaxPragmaLines == 2

PragmaArgs == {NoArgs, [NoArgs EXCEPT !.filter = <<"-", "w", "h", "i", "t", "e", "s", "p", "a", "c", "e">>]}

PragmaLines == {pragma_no_tabs, pragma_tabs, pragma_no_sign, pragma_unknown, tab_line}

PragmaFiles == {IgnoredFile, MissingFile}
               \cup {File(CMakeLists_txt, c) : c \in SeqsUpTo(PragmaLines, MaxPragmaLines)}

NextPragma ==
    \/ \E a \in PragmaArgs : parse_args(a, NoRc)
    \/ \E f \in PragmaFiles : process_file(f, MaxPragmaFiles)
    \/ process_line_step
    \/ process_file_end

SpecPragma == Init /\ [][NextPragma]_vars

\* the filter tokens of a directive line
DirectiveFilters(line) ==
    IF startswith(line, linter_pragma_start)
    THEN strip_nonempty(split(from(line, Len(linter_pragma_start)), ","))
    ELSE <<>>

\* the filter tokens of the directives on the lines 0 .. n-1 of raw, in file order
RECURSIVE Directives(_, _)
Directives(raw, n) ==
    IF n = 0 THEN <<>> ELSE Directives(raw, n - 1) \o DirectiveFilters(At(raw, n - 1))

\* each finding reported so far was printed exactly when the filter list At(its line)
\* lets its category through
DecidedBy(FiltersAtLine(_)) ==
    \A i \in 1..Len(reported) :
        (\E j \in 1..Len(printed) : printed[j] = reported[i])
            <=> should_print_error(FiltersAtLine(reported[i][1]), reported[i][2])

\* the filters of the caller, every directive of the file, and again the directives
\* of the lines up to line ln
MergedFilters(ln) ==
    original_filters \o Directives(raw_lines, Len(raw_lines)) \o Directives(raw_lines, ln + 1)

\* the filters of the caller and the directives of the lines up to line ln only
RemainderFilters(ln) == original_filters \o Directives(raw_lines, ln + 1)

\* C2 (amended): a directive on line k is merged into the active filter list while the
\* file is read, before any finding of the file is decided, and once more when line k
\* is checked; the findings of every line of the file, those before k and the line-0
\* findings included, are printed or suppressed by a list that holds the directive.
C2_DirectiveGovernsWholeFile ==
    pc = "lines" =>
        /\ filters = original_filters \o Directives(raw_lines, Len(raw_lines)) \o Directives(raw_lines, linenumber)
        /\ DecidedBy(MergedFilters)

\* C2 (as claimed): a directive on line k governs line k and the lines after it, and
\* the findings of the lines before k are decided by the filters in force before it.
C2_DirectiveGovernsRemainder == pc = "lines" => DecidedBy(RemainderFilters)

\* C2 witness: a finding of a line before the directive was suppressed by it.
C2_Witness ==
    /\ pc = "lines"
    /\ \E i \in 1..Len(reported) :
          /\ reported[i][1] >= 1
          /\ Directives(raw_lines, reported[i][1] + 1) = <<>>
          /\ should_print_error(original_filters, reported[i][2])
          /\ \A j \in 1..Len(printed) : printed[j] # reported[i]

\* a directive with a filter that set_filters refuses
Malformed(line) ==
    \E i \in 1..Len(DirectiveFilters(line)) :
        LET f == DirectiveFilters(line)[i]
        IN \/ ~(startswith(f, <<"-">>) \/ startswith(f, <<"+">>))
           \/ \A c \in Categories : ~startswith(c, from(f, 1))

\* C3: checking a line that holds a malformed directive reports a syntax finding at
\* that line and does not end the file: the loop goes on to the next line (the
\* modulo of check_indent aside, which raises on every line when the width is 0).
C3_MalformedPragmaIsAFinding ==
    [][(pc = "lines" /\ linenumber < Len(lines) /\ Malformed(At(raw_lines, linenumber)) /\ spaces # 0)
        => /\ pc' = "lines"
           /\ linenumber' = linenumber + 1
           /\ Len(reported') > Len(reported)
           /\ reported'[Len(reported) + 1] = <<linenumber, syntax>>]_vars

\* C3 witness: a malformed directive got its syntax finding and a later line was
\* checked and got a finding too.
C3_Witness ==
    /\ pc = "lines"
    /\ \E k \in 1..(linenumber - 2) :
          /\ Malformed(At(raw_lines, k))
          /\ \E i \in 1..Len(reported) : reported[i] = <<k, syntax>>
          /\ \E i \in 1..Len(reported) : reported[i][1] = k + 1

---------------------------------------------------------------------------
(* SpecError: error(...) under any filter list *)

MaxFilters == 3

MaxReports == 1

\* filters as parse_args and directives leave them in the list; the last one is a
\* token a malformed directive leaves there
FilterTokens == {<<"-", "w", "h", "i", "t", "e", "s", "p", "a", "c", "e">>,
                 <<"+", "w", "h", "i", "t", "e", "s", "p", "a", "c", "e", "/", "t", "a", "b", "s">>,
                 <<"-">>,
                 <<"+", "s", "y", "n", "t", "a", "x">>,
                 <<"-", "s", "y", "n", "t", "a", "x">>,
                 <<"t", "a", "b", "s">>}

InitError ==
    /\ pc = "report"
    /\ filters \in SeqsUpTo(FilterTokens, MaxFilters)
    /\ errors = 0
    /\ spaces = DefaultSpaces
    /\ linelength = DefaultLineLength
    /\ quiet = FALSE
    /\ config = DEFAULT_CMAKELINTRC
    /\ args = NoArgs
    /\ rcfile = NoRc
    /\ have_included_stdargs = FALSE
    /\ have_used_stdargs = FALSE
    /\ filename = CMakeLists_txt
    /\ raw_lines = <<>>
    /\ lines = <<>>
    /\ have_seen_uppercase = "None"
    /\ linenumber = 0
    /\ original_filters = <<>>
    /\ quote = FALSE
    /\ printed = <<>>
    /\ reported = <<>>
    /\ outcome = "none"
    /\ nfiles = 0

\* the lint state and the output after a call of error that left m
reported_as(m) ==
    /\ errors' = m.errors
    /\ printed' = m.printed
    /\ reported' = m.reported
    /\ UNCHANGED <<pc, filters, spaces, linelength, quiet, config, args, rcfile,
                   have_included_stdargs, have_used_stdargs, filename, raw_lines, lines,
                   have_seen_uppercase, linenumber, original_filters, quote, outcome, nfiles>>

\* a check calls error(filename, 1, category, message)
error_call(category) ==
    /\ pc = "report"
    /\ Len(reported) < MaxReports
    /\ reported_as(error(Mem, 1, category))

NextError == \E category \in Categories : error_call(category)

SpecError == InitError /\ [][NextError]_vars

\* the places of the filters of fs whose prefix matches the category
Matching(fs, category) ==
    {i \in 1..Len(fs) : /\ fs[i] # <<>>
                        /\ fs[i][1] \in {"+", "-"}
                        /\ startswith(category, Tail(fs[i]))}

\* the last matching filter is a "+" filter, or no filter matches
LastMatchAllows(fs, category) ==
    \/ Matching(fs, category) = {}
    \/ \E i \in Matching(fs, category) :
          /\ \A j \in Matching(fs, category) : j <= i
          /\ fs[i][1] = "+"

\* C4: a finding is printed, and counted in the error count, exactly when the last
\* filter of the list whose prefix matches its category is a "+" filter or no filter
\* matches it; otherwise it is neither printed nor counted.
C4_LastMatchingFilterDecides ==
    pc = "report" =>
        /\ \A i \in 1..Len(reported) :
              (\E j \in 1..Len(printed) : printed[j] = reported[i])
                  <=> LastMatchAllows(filters, reported[i][2])
        /\ errors = Len(printed)
        /\ errors = Cardinality({i \in 1..Len(reported) : LastMatchAllows(filters, reported[i][2])})

\* C4 witness: a finding was printed and counted although a "-" filter matches its
\* category, because a later "+" filter matches it too.
C4_Witness ==
    /\ pc = "report" /\ errors = 1 /\ Len(printed) = 1
    /\ \E i, j \in Matching(filters, printed[1][2]) : i < j /\ filters[i][1] = "-" /\ filters[j][1] = "+"

---------------------------------------------------------------------------
(* SpecPackage: Find modules *)

MaxPackageFiles == 1

MaxPackageLines == 2

FindFoo_cmake == <<"F", "i", "n", "d", "F", "o", "o", ".", "c", "m", "a", "k", "e">>

include_stdargs == <<"i", "n", "c", "l", "u", "d", "e", "(", "F", "i", "n", "d", "P", "a", "c", "k", "a", "g", "e", "H", "a", "n", "d", "l", "e", "S", "t", "a", "n", "d", "a", "r", "d", "A", "r", "g", "s", ")">>

FOO == <<"F", "O", "O">>

BAR == <<"B", "A", "R">>

\* the line find_package_handle_standard_args(<arg>)
use_stdargs(arg) == <<"f", "i", "n", "d", "_", "p", "a", "c", "k", "a", "g", "e", "_", "h", "a", "n", "d", "l", "e", "_", "s", "t", "a", "n", "d", "a", "r", "d", "_", "a", "r", "g", "s", "(">> \o arg \o <<")">>

set_a == <<"s", "e", "t", "(", "a", ")">>

PackageLines == {include_stdargs, use_stdargs(FOO), use_stdargs(BAR), set_a}

PackageFiles == {File(n, c) : n \in {FindFOO_cmake, FindFoo_cmake}, c \in SeqsUpTo(PackageLines, MaxPackageLines)}

NextPackage ==
    \/ parse_args(NoArgs, NoRc)
    \/ \E f \in PackageFiles : process_file(f, MaxPackageFiles)
    \/ process_line_step
    \/ process_file_end

SpecPackage == Init /\ [][NextPackage]_vars

\* how many findings of the category the log holds
Count(log, category) == Cardinality({i \in 1..Len(log) : log[i][2] = category})

\* the finding of done for a step that was not reached
Missing(reached) == IF reached THEN <<>> ELSE << <<0, package_consistency>> >>

HasInclude(raw) == \E i \in 1..Len(raw) : raw[i] = include_stdargs

HasUse(raw) == \E i \in 1..Len(raw) : raw[i] \in {use_stdargs(FOO), use_stdargs(BAR)}

FindModules == {FindFOO_cmake, FindFoo_cmake}

\* C5: for a Find*.cmake file, done (run once, after the last line) reports one
\* package/consistency finding at line 0 for each of "included" and "used" that was not
\* reached and none for one that was: two for a file with neither the include nor the
\* find_package_handle_standard_args command, none for a file with both; afterwards
\* the tracker is not-included, not-used.
C5_DoneReportsWhatIsMissing ==
    [][(pc = "lines" /\ linenumber = Len(lines) /\ filename \in FindModules) =>
          /\ pc' = "idle" /\ outcome' = "processed"
          /\ reported' = reported \o Missing(have_included_stdargs) \o Missing(have_used_stdargs)
          /\ ~have_included_stdargs' /\ ~have_used_stdargs'
          /\ Count(reported', package_consistency)
               = (IF HasInclude(raw_lines) THEN 0 ELSE 1) + (IF HasUse(raw_lines) THEN 0 ELSE 1)]_vars

\* C5 witness: a Find module with neither command was processed to its end, with two
\* package/consistency findings at line 0.
C5_Witness ==
    /\ pc = "idle" /\ outcome = "processed" /\ filename = FindFOO_cmake
    /\ reported = << <<0, package_consistency>>, <<0, package_consistency>> >>
    /\ ~have_included_stdargs /\ ~have_used_stdargs

\* the findings a find_package_handle_standard_args(arg) command adds at line ln of
\* file fname
Weird(fname, ln, arg) == IF arg = upper(SubSeq(fname, 5, Len(fname) - 6)) THEN <<>> ELSE << <<ln, package_stdargs>> >>

\* C6: in a Find module a find_package_handle_standard_args(<ARG>) command moves the
\* tracker to "used", which it stays; it adds one package/stdargs finding at its line
\* exactly when <ARG> is not the expected name, and done then reports no
\* package/consistency finding for "used".
C6_UsedWhateverTheArgument ==
    [][(pc = "lines" /\ filename \in FindModules) =>
          /\ \A arg \in {FOO, BAR} :
                (linenumber < Len(lines) /\ lines[linenumber + 1] = use_stdargs(arg)) =>
                    /\ pc' = "lines" /\ have_used_stdargs'
                    /\ reported' = reported \o Weird(filename, linenumber, arg)
          /\ (have_used_stdargs /\ linenumber < Len(lines)) => have_used_stdargs'
          /\ (have_used_stdargs /\ linenumber = Len(lines)) =>
                reported' = reported \o Missing(have_included_stdargs)
          /\ (linenumber = Len(lines) /\ HasUse(raw_lines)) => have_used_stdargs]_vars

\* C6 witness: FindFOO.cmake with the include and find_package_handle_standard_args(BAR)
\* was processed: one package/stdargs finding at line 2 and no package/consistency.
C6_Witness ==
    /\ pc = "idle" /\ outcome = "processed" /\ filename = FindFOO_cmake
    /\ reported = << <<2, package_stdargs>> >>

---------------------------------------------------------------------------
(* SpecCase: the casing of the commands of one file *)

MaxCaseFiles == 1

MaxCaseLines == 3

\* an upper-case, a lower-case, a mixed-case and a caseless command, and a line
\* without a command
CaseLines == {<<"S", "E", "T", "(", "a", ")">>, <<"s", "e", "t", "(", "a", ")">>, <<"S", "e", "t", "(", "a", ")">>, <<"_", "1", "(", "a", ")">>, <<"a", " ", "b">>}

CaseFiles == {File(CMakeLists_txt, c) : c \in SeqsUpTo(CaseLines, MaxCaseLines)}

NextCase ==
    \/ parse_args(NoArgs, NoRc)
    \/ \E f \in CaseFiles : process_file(f, MaxCaseFiles)
    \/ process_line_step
    \/ process_file_end

SpecCase == Init /\ [][NextCase]_vars

\* the command name of a line "name(...)": the word before its first parenthesis
Name(line) ==
    IF \E k \in 2..Len(line) : line[k] = "(" /\ \A i \in 1..(k - 1) : IsWord(line[i])
    THEN SubSeq(line, 1, (CHOOSE k \in 2..Len(line) : line[k] = "(" /\ \A i \in 1..(k - 1) : IsWord(line[i])) - 1)
    ELSE <<>>

HasUpper(name) == \E i \in 1..Len(name) : IsUpper(name[i])

HasLower(name) == \E i \in 1..Len(name) : IsLower(name[i])

\* the lines process_line has been through
Checked == 0..(linenumber - 1)

\* C7: within one file, once a strictly upper-case command and a strictly lower-case
\* command have both been checked, a readability/mixedcase finding has been reported;
\* and every command whose name has both upper-case and lower-case letters has a
\* readability/wonkycase finding on its line, whatever commands came before it.
C7_CaseHistory ==
    pc = "lines" =>
        /\ (\E i, j \in Checked :
               /\ HasUpper(Name(At(raw_lines, i))) /\ ~HasLower(Name(At(raw_lines, i)))
               /\ HasLower(Name(At(raw_lines, j))) /\ ~HasUpper(Name(At(raw_lines, j))))
             => Count(reported, readability_mixedcase) >= 1
        /\ \A j \in Checked :
               (HasUpper(Name(At(raw_lines, j))) /\ HasLower(Name(At(raw_lines, j))))
                 => \E i \in 1..Len(reported) : reported[i] = <<j, readability_wonkycase>>

\* C7 witness: SET, Set, set were checked: wonkycase at line 2 although the file's
\* casing was known by then, and mixedcase at line 3.
C7_Witness ==
    /\ pc = "lines" /\ linenumber = 4
    /\ Name(At(raw_lines, 1)) = <<"S", "E", "T">>
    /\ Name(At(raw_lines, 2)) = <<"S", "e", "t">>
    /\ Name(At(raw_lines, 3)) = <<"s", "e", "t">>
    /\ reported = << <<2, readability_wonkycase>>, <<3, readability_mixedcase>> >>

---------------------------------------------------------------------------
(* SpecArgs: the configuration file and the command line *)

MaxRcLines == 2

MaxArgsFiles == 1

MaxArgsLines == 1

\* with and without --spaces 4, --linelength 30 and --config None
ArgsArgs == {[NoArgs EXCEPT !.spaces = s, !.linelength = l, !.config = c] :
                s \in {NoInt, SomeInt(4)}, l \in {NoInt, SomeInt(30)},
                c \in {None, <<"N", "o", "n", "e">>}}

RcLines == {<<"s", "p", "a", "c", "e", "s", "=", "3">>, <<"l", "i", "n", "e", "l", "e", "n", "g", "t", "h", "=", "2", "0">>, <<"q", "u", "i", "e", "t">>, <<"#", " ", "l", "i", "n", "e", "l", "e", "n", "g", "t", "h", "=", "9">>}

ArgsRcs == {NoRc} \cup {[isfile |-> TRUE, contents |-> c] : c \in SeqsUpTo(RcLines, MaxRcLines)}

\* a line indented by three spaces, and a line of 25 characters
indented_3 == <<" ", " ", " ", "s", "e", "t", "(", "a", ")">>

long_25 == <<"s", "e", "t", "(", "a", "a", "a", "a", "a", "a", "a", "a", "a", "a", "a", "a", "a", "a", "a", "a", "a", "a", "a", "a", ")">>

ArgsFiles == {File(CMakeLists_txt, c) : c \in SeqsUpTo({indented_3, long_25}, MaxArgsLines)}

NextArgs ==
    \/ \E a \in ArgsArgs, rc \in ArgsRcs : parse_args(a, rc)
    \/ \E f \in ArgsFiles : process_file(f, MaxArgsFiles)
    \/ process_line_step
    \/ process_file_end

SpecArgs == Init /\ [][NextArgs]_vars

\* the configuration file that was read has a line giving the option
Gives(opt) == rcfile.isfile /\ \E i \in 1..Len(rcfile.contents) : startswith(rcfile.contents[i], opt)

\* C8: when both the configuration file and the command line give a value for spaces
\* or for linelength, the value in effect after parse_args, and so while the files are
\* processed, is the command line's, for each of the two options.
C8_CommandLineWins ==
    pc \in {"idle", "lines"} =>
        /\ (args.spaces.given /\ Gives(opt_spaces)) => spaces = args.spaces.value
        /\ (args.linelength.given /\ Gives(opt_linelength)) => linelength = args.linelength.value

\* C8 witness: with linelength=20 in the configuration file and --linelength 30 on
\* the command line, a line of 25 characters is reported as too long.
C8_Witness ==
    /\ pc = "lines" /\ linenumber = 2
    /\ args.linelength = SomeInt(30) /\ Gives(opt_linelength)
    /\ At(raw_lines, 1) = long_25
    /\ reported = << <<1, cat_linelength>> >>
    /\ linelength = 20

---------------------------------------------------------------------------
(* SpecClean: CleansedLines over any lines of quotes, hashes and backslashes *)

MaxCleanLines == 2

MaxLineChars == 3

CleanChars == {"\"", "#", "\\", "a"}

CleanInputs == SeqsUpTo(SeqsUpTo(CleanChars, MaxLineChars), MaxCleanLines)

\* CleansedLines(lines) is entered: self.lines is empty and quote is False
InitClean ==
    /\ pc = "clean"
    /\ raw_lines \in CleanInputs
    /\ lines = <<>>
    /\ quote = FALSE
    /\ filters = <<>>
    /\ errors = 0
    /\ spaces = DefaultSpaces
    /\ linelength = DefaultLineLength
    /\ quiet = FALSE
    /\ config = DEFAULT_CMAKELINTRC
    /\ args = NoArgs
    /\ rcfile = NoRc
    /\ have_included_stdargs = FALSE
    /\ have_used_stdargs = FALSE
    /\ filename = CMakeLists_txt
    /\ have_seen_uppercase = "None"
    /\ linenumber = 0
    /\ original_filters = <<>>
    /\ printed = <<>>
    /\ reported = <<>>
    /\ outcome = "none"
    /\ nfiles = 0

\* one turn of the loop of CleansedLines.__init__ left r
cleansed_as(r) ==
    /\ lines' = Append(lines, r.line)
    /\ quote' = r.quote
    /\ UNCHANGED <<pc, filters, errors, spaces, linelength, quiet, config, args, rcfile,
                   have_included_stdargs, have_used_stdargs, filename, raw_lines,
                   have_seen_uppercase, linenumber, original_filters, printed, reported,
                   outcome, nfiles>>

\* "cleaned, quote = clean_comments(line, quote); self.lines.append(cleaned)"
clean_line ==
    /\ pc = "clean"
    /\ Len(lines) < Len(raw_lines)
    /\ cleansed_as(clean_comments(raw_lines[Len(lines) + 1], quote))

NextClean == clean_line

SpecClean == InitClean /\ [][NextClean]_vars

\* whether a quote is open just before character p of the line, q being the state at
\* the start of the line: a quote character toggles it unless an unescaped backslash
\* is right before it (esc: the character before i is an unescaped backslash), and
\* a "#" outside the quotes ends the line
RECURSIVE QuoteScan(_, _, _, _, _)
QuoteScan(line, i, p, q, esc) ==
    IF i >= p THEN q
    ELSE IF line[i] = "#" /\ ~q THEN FALSE
    ELSE IF line[i] = "\\" THEN QuoteScan(line, i + 1, p, q, ~esc)
    ELSE IF line[i] = "\"" THEN QuoteScan(line, i + 1, p, IF esc THEN q ELSE ~q, FALSE)
    ELSE QuoteScan(line, i + 1, p, q, FALSE)

QuoteAt(line, p, q) == QuoteScan(line, 1, p, q, FALSE)

\* whether a quote is open at the start of line k of raw
RECURSIVE QuoteBefore(_, _)
QuoteBefore(raw, k) ==
    IF k = 1 THEN FALSE
    ELSE QuoteAt(raw[k - 1], Len(raw[k - 1]) + 1, QuoteBefore(raw, k - 1))

\* the line has a "#" inside an open quote
HiddenHash(line, q) == \E p \in 1..Len(line) : line[p] = "#" /\ QuoteAt(line, p, q)

\* the places of the line outside the quotes and before any comment
Scanned(line, q) ==
    {i \in 1..Len(line) :
        /\ ~QuoteAt(line, i, q)
        /\ \A p \in 1..i : line[p] = "#" => QuoteAt(line, p, q)}

NumA(line) == Cardinality({i \in 1..Len(line) : line[i] = "a"})

\* C9: for every sequence of raw lines, with the quote state carried from each line
\* to the next, each cleansed line is no longer than its raw line, and a "#" met while
\* a quote is open (opened on that line or on an earlier one) starts no comment: the
\* text after the closing quote on that line is kept.
C9_QuotesHideComments ==
    pc = "clean" =>
        \A k \in 1..Len(lines) :
            /\ Len(lines[k]) <= Len(raw_lines[k])
            /\ HiddenHash(raw_lines[k], QuoteBefore(raw_lines, k)) =>
                  NumA(lines[k]) >= Cardinality({i \in Scanned(raw_lines[k], QuoteBefore(raw_lines, k)) : raw_lines[k][i] = "a"})

\* C9 witness: after a line ending in an escaped backslash and a quote, the "#" of the
\* next line is inside the quote, and the cleansed line stops at it.
C9_Witness ==
    /\ pc = "clean"
    /\ raw_lines = << <<"\\", "\\", "\"">>, <<"#", "\"", "a">> >>
    /\ lines = << <<"\\", "\\">>, <<>> >>

---------------------------------------------------------------------------
(* SpecSpaces: the whitespace inside the parentheses of a command *)

MaxSpacesFiles == 1

MaxSpacesLines == 2

MaxSpacesChars == 3

SpacesChars == {"a", " ", "(", ")"}

\* commands with a nested pair of parentheses on one line
NestedLines == {<<"a", "(", "(", " ", ")", ")">>, <<"a", "(", "(", ")", " ", ")">>}

SpacesFiles ==
    {File(CMakeLists_txt, c) : c \in SeqsUpTo(SeqsUpTo(SpacesChars, MaxSpacesChars), MaxSpacesLines)}
    \cup {File(CMakeLists_txt, <<l>>) : l \in NestedLines}

NextSpaces ==
    \/ parse_args(NoArgs, NoRc)
    \/ \E f \in SpacesFiles : process_file(f, MaxSpacesFiles)
    \/ process_line_step
    \/ process_file_end

SpecSpaces == Init /\ [][NextSpaces]_vars

\* the place of the "(" of a line that is a command invocation (spaces, a name,
\* spaces, "("), or 0
OpenOf(line) ==
    IF \E o \in 2..Len(line) :
          /\ line[o] = "("
          /\ \E a \in 1..(o - 1), b \in 1..(o - 1) :
                /\ a <= b
                /\ \A i \in 1..(o - 1) : IF a <= i /\ i <= b THEN IsWord(line[i]) ELSE line[i] = " "
    THEN CHOOSE o \in 2..Len(line) : line[o] = "(" /\ \A i \in 1..(o - 1) : line[i] # "("
    ELSE 0

\* how many spaces follow place c of the line, and how many precede it
RECURSIVE SpacesAfter(_, _)
SpacesAfter(line, c) == IF c < Len(line) /\ line[c + 1] = " " THEN 1 + SpacesAfter(line, c + 1) ELSE 0

RECURSIVE SpacesBefore(_, _)
SpacesBefore(line, c) == IF c > 1 /\ line[c - 1] = " " THEN 1 + SpacesBefore(line, c - 1) ELSE 0

\* the ")" that closes the parenthesis open before place c of line j (0-based) of cl,
\* depth being the number of parentheses opened since
RECURSIVE Closing(_, _, _, _)
Closing(cl, j, c, depth) ==
    IF j >= Len(cl) THEN [found |-> FALSE, line |-> 0, col |-> 0]
    ELSE IF c > Len(At(cl, j)) THEN Closing(cl, j + 1, 1, depth)
    ELSE IF At(cl, j)[c] = "(" THEN Closing(cl, j, c + 1, depth + 1)
    ELSE IF At(cl, j)[c] = ")"
    THEN IF depth = 0 THEN [found |-> TRUE, line |-> j, col |-> c] ELSE Closing(cl, j, c + 1, depth - 1)
    ELSE Closing(cl, j, c + 1, depth)

\* the whitespace right before the closing parenthesis e of the command of line k, less
\* the indentation of the closing line when that is a later line
BeforeClosing(cl, k, e) ==
    IF e.line # k /\ SpacesBefore(At(cl, e.line), e.col) >= SpacesAfter(At(cl, e.line), 0)
    THEN SpacesBefore(At(cl, e.line), e.col) - SpacesAfter(At(cl, e.line), 0)
    ELSE SpacesBefore(At(cl, e.line), e.col)

\* the command of line k has a matching ")" and the whitespace at its two ends differs
Mismatching(cl, k, o, e) == SpacesAfter(At(cl, k), o) # BeforeClosing(cl, k, e)

\* C10: for every command invocation whose "(" has a matching ")", whitespace/mismatch
\* is reported at the command's line exactly when the whitespace right after the "("
\* differs in amount from the whitespace right before the matching ")", also with
\* nested parentheses and over several lines (the indentation of the closing line
\* discounted).
C10_MismatchAtMatchingParenthesis ==
    pc = "lines" =>
        \A k \in Checked :
            (OpenOf(At(lines, k)) # 0 /\ Closing(lines, k, OpenOf(At(lines, k)) + 1, 0).found) =>
                ((\E i \in 1..Len(reported) : reported[i] = <<k, whitespace_mismatch>>)
                    <=> Mismatching(lines, k, OpenOf(At(lines, k)), Closing(lines, k, OpenOf(At(lines, k)) + 1, 0)))

\* C10 witness: for a(( )), whose outer parentheses have no whitespace at either end,
\* whitespace/mismatch was reported.
C10_Witness ==
    /\ pc = "lines" /\ linenumber = 2
    /\ At(lines, 1) = <<"a", "(", "(", " ", ")", ")">>
    /\ reported = << <<1, whitespace_mismatch>> >>

---------------------------------------------------------------------------
(* SpecUnclosed: commands whose parenthesis is never closed *)

MaxUnclosedFiles == 1

MaxUnclosedLines == 2

\* two commands left open, an argument line, and a closed command
UnclosedLines == {<<"i", "n", "c", "l", "u", "d", "e", "(">>, <<"s", "e", "t", "(", "a">>, <<"b">>, <<"s", "e", "t", "(", "a", ")">>}

UnclosedFiles == {File(n, c) : n \in {CMakeLists_txt, FindFOO_cmake}, c \in SeqsUpTo(UnclosedLines, MaxUnclosedLines)}

NextUnclosed ==
    \/ parse_args(NoArgs, NoRc)
    \/ \E f \in UnclosedFiles : process_file(f, MaxUnclosedFiles)
    \/ process_line_step
    \/ process_file_end

SpecUnclosed == Init /\ [][NextUnclosed]_vars

\* line k (0-based) of cl is a command, and neither it nor any later line has a ")"
Unclosed(cl, k) ==
    /\ OpenOf(At(cl, k)) # 0
    /\ \A j \in k..(Len(cl) - 1) : \A i \in 1..Len(At(cl, j)) : At(cl, j)[i] # ")"

\* C11: a command whose "(" has no ")" on its line or on any later line of the file
\* gets a syntax finding at its line, and process_line completes for that line, in
\* Find modules too: the file is processed to its end, done included, without raising.
C11_UnclosedCommandIsNotFatal ==
    [][(pc = "lines" /\ \E k \in 0..(Len(lines) - 1) : Unclosed(lines, k)) =>
          /\ outcome' # "raised"
          /\ (linenumber < Len(lines) /\ Unclosed(lines, linenumber)) =>
                /\ pc' = "lines" /\ linenumber' = linenumber + 1
                /\ \E i \in 1..Len(reported') : reported'[i] = <<linenumber, syntax>>]_vars

\* C11 witness: FindFOO.cmake with the one line "include(": the syntax finding is
\* reported at line 1, then process_file raises.
C11_Witness ==
    /\ pc = "idle" /\ outcome = "raised" /\ filename = FindFOO_cmake
    /\ reported = << <<1, syntax>> >>

---------------------------------------------------------------------------
(* SpecArgument: the argument of include and find_package_handle_standard_args *)

MaxArgumentFiles == 1

MaxArgumentLines == 2

\* an include with empty parentheses, one left open, one with an argument and a token
\* after it, the rest of an open include, and a closed use
ArgumentLines == {<<"i", "n", "c", "l", "u", "d", "e", "(", ")">>,
                  <<"i", "n", "c", "l", "u", "d", "e", "(">>,
                  <<"i", "n", "c", "l", "u", "d", "e", "(", "a", ")", " ", "b">>,
                  <<"F", "i", "n", "d", "P", "a", "c", "k", "a", "g", "e", "H", "a", "n", "d", "l", "e", "S", "t", "a", "n", "d", "a", "r", "d", "A", "r", "g", "s", ")">>,
                  use_stdargs(FOO)}

ArgumentFiles == {File(FindFOO_cmake, c) : c \in SeqsUpTo(ArgumentLines, MaxArgumentLines)}

NextArgument ==
    \/ parse_args(NoArgs, NoRc)
    \/ \E f \in ArgumentFiles : process_file(f, MaxArgumentFiles)
    \/ process_line_step
    \/ process_file_end

SpecArgument == Init /\ [][NextArgument]_vars

\* the text of lines j.. of cl up to the parenthesis e (to the end of cl when there is
\* none), line j taken from place c on, the lines separated by a space
RECURSIVE InsideFrom(_, _, _, _)
InsideFrom(cl, j, c, e) ==
    IF j >= Len(cl) THEN <<>>
    ELSE IF e.found /\ e.line = j THEN SubSeq(At(cl, j), c, e.col - 1)
    ELSE SubSeq(At(cl, j), c, Len(At(cl, j))) \o <<" ">> \o InsideFrom(cl, j + 1, 1, e)

\* the first run of word characters of s that is not skip, or <<>>
RECURSIVE FirstToken(_, _)
FirstToken(s, skip) ==
    IF \A i \in 1..Len(s) : ~IsWord(s[i]) THEN <<>>
    ELSE LET a == CHOOSE i \in 1..Len(s) : IsWord(s[i]) /\ \A j \in 1..(i - 1) : ~IsWord(s[j])
             b == CHOOSE i \in a..Len(s) : (\A j \in a..i : IsWord(s[j])) /\ (i = Len(s) \/ ~IsWord(s[i + 1]))
         IN IF SubSeq(s, a, b) = skip THEN FirstToken(SubSeq(s, b + 1, Len(s)), skip)
            ELSE SubSeq(s, a, b)

\* the first token inside the parentheses of the command of line k that is not the
\* command's name, or <<>>
InsideArgument(cl, k) ==
    FirstToken(InsideFrom(cl, k, OpenOf(At(cl, k)) + 1, Closing(cl, k, OpenOf(At(cl, k)) + 1, 0)),
               Name(At(cl, k)))

\* line k is an include or find_package_handle_standard_args invocation
TakesArgument(cl, k) ==
    lower(Name(At(cl, k))) \in {<<"i", "n", "c", "l", "u", "d", "e">>, <<"f", "i", "n", "d", "_", "p", "a", "c", "k", "a", "g", "e", "_", "h", "a", "n", "d", "l", "e", "_", "s", "t", "a", "n", "d", "a", "r", "d", "_", "a", "r", "g", "s">>}

\* C12: in a Find module, the argument extracted for an include(...) or
\* find_package_handle_standard_args(...) invocation is the first token inside that
\* invocation's parentheses that is not the command name, over the lines the
\* invocation spans; no token after its closing ")" or on a later line is taken, so
\* "included" is reached only by an include whose parentheses hold
\* FindPackageHandleStandardArgs.
C12_ArgumentInsideParentheses ==
    (pc = "lines" /\ filename \in FindModules) =>
        /\ \A k \in Checked :
              (TakesArgument(lines, k) /\ ~get_command_argument(k, lines).raised) =>
                  get_command_argument(k, lines).value = InsideArgument(lines, k)
        /\ have_included_stdargs =>
              \E k \in Checked :
                  /\ lower(Name(At(lines, k))) = <<"i", "n", "c", "l", "u", "d", "e">>
                  /\ InsideArgument(lines, k) = <<"F", "i", "n", "d", "P", "a", "c", "k", "a", "g", "e", "H", "a", "n", "d", "l", "e", "S", "t", "a", "n", "d", "a", "r", "d", "A", "r", "g", "s">>

\* C12 witness: after include() with empty parentheses, the token of the next line was
\* taken as its argument and the tracker is "included".
C12_Witness ==
    /\ pc = "lines" /\ linenumber = 2 /\ filename = FindFOO_cmake
    /\ At(lines, 1) = <<"i", "n", "c", "l", "u", "d", "e", "(", ")">>
    /\ have_included_stdargs

=============================================================================
